---- MODULE Spec2Model ----
(***************************************************************************)
(* A model of setupvenv.py: the command surface (create, legacy create,   *)
(* list, remove) of the virtual environment manager, acting on a          *)
(* filesystem that holds the environments, the .venvlocation marker and   *)
(* the venv_shell activation script of the working directory.             *)
(*                                                                         *)
(* Text is a sequence of atoms.  Names and paths are spelled character by *)
(* character, so that splitting on "/", prefix and substring tests are    *)
(* computed as Python computes them; a literal block of a generated file  *)
(* that holds no name is one atom.                                         *)
(***************************************************************************)
EXTENDS Integers, Sequences, FiniteSets, TLC

(***************************************************************************)
(* Bounds of the model.                                                    *)
(***************************************************************************)
\* how many entries of NameArgList the --name flag ranges over
NumNames == 1
\* how many entries of BaseArgList the --base-dir flag ranges over
NumBases == 1
\* how many independent faults of the collaborators one invocation may meet
MaxFaults == 1

(***************************************************************************)
(* Text helpers (str methods).                                             *)
(***************************************************************************)
Whitespace == {" ", "\n", "\t"}

RECURSIVE LStrip(_)
LStrip(s) ==
    IF s # <<>> /\ Head(s) \in Whitespace THEN LStrip(Tail(s)) ELSE s

RECURSIVE RStrip(_)
RStrip(s) ==
    IF s # <<>> /\ s[Len(s)] \in Whitespace
    THEN RStrip(SubSeq(s, 1, Len(s) - 1))
    ELSE s

\* str.strip()
Strip(s) == RStrip(LStrip(s))

\* str.startswith(p)
StartsWith(s, p) == Len(p) <= Len(s) /\ SubSeq(s, 1, Len(p)) = p

\* `needle in hay` for str
Contains(hay, needle) ==
    \E i \in 0..(Len(hay) - Len(needle)) :
        SubSeq(hay, i + 1, i + Len(needle)) = needle

\* str.split(sep) for a one-character separator
RECURSIVE SplitAcc(_, _, _)
SplitAcc(s, sep, cur) ==
    IF s = <<>> THEN <<cur>>
    ELSE IF Head(s) = sep THEN <<cur>> \o SplitAcc(Tail(s), sep, <<>>)
    ELSE SplitAcc(Tail(s), sep, Append(cur, Head(s)))

Split(s, sep) == SplitAcc(s, sep, <<>>)

\* str.lower() on the atoms the confirmation answers are spelled with
LowerChar(c) ==
    CASE c = "Y" -> "y" [] c = "E" -> "e" [] c = "S" -> "s" [] c = "N" -> "n"
      [] OTHER -> c

Lower(s) == [i \in 1..Len(s) |-> LowerChar(s[i])]

(***************************************************************************)
(* pathlib.  A path is the sequence of its components below the root; all *)
(* paths of the model are absolute.                                        *)
(***************************************************************************)
\* the components pathlib keeps of a string: empty ones and "." are dropped
ParseParts(s) ==
    SelectSeq(Split(s, "/"), LAMBDA c : c # <<>> /\ c # <<".">>)

IsAbsolute(s) == s # <<>> /\ Head(s) = "/"

\* Path.__truediv__: base / s
PathJoin(base, s) == IF IsAbsolute(s) THEN ParseParts(s) ELSE base \o ParseParts(s)

\* str(path)
RECURSIVE PathStr(_)
PathStr(p) ==
    IF p = <<>> THEN <<"/">>
    ELSE IF Len(p) = 1 THEN <<"/">> \o p[1]
    ELSE PathStr(SubSeq(p, 1, Len(p) - 1)) \o <<"/">> \o p[Len(p)]

\* path.name
PathName(p) == IF p = <<>> THEN <<>> ELSE p[Len(p)]

Parent(p) == SubSeq(p, 1, Len(p) - 1)

\* q is p or lies below p
IsUnder(q, p) == Len(p) <= Len(q) /\ SubSeq(q, 1, Len(p)) = p

\* p and every directory above it
Ancestors(p) == {SubSeq(p, 1, i) : i \in 0..Len(p)}

(***************************************************************************)
(* The fixtures of the working directory.                                  *)
(***************************************************************************)
\* Path.cwd()
Cwd == << <<"c">>, <<"p">> >>

\* Path.home()
Home == << <<"h">> >>

DefaultBaseDir == Home \o << <<"virtual_environments">> >>

\* the values of --name; <<>> is the flag left out
NameArgList == << <<"p", "q">>, <<"p", "/", "q">>, <<".">> >>

NameArgs == {<<>>} \cup {NameArgList[i] : i \in 1..NumNames}

\* the values of --name of the remove command, which must spell the name that
\* create takes from the working directory; "." is a name as any other
RemoveNameArgs == NameArgs \cup {PathName(Cwd), <<".">>}

\* the values of --base-dir; <<>> is the flag left out
BaseArgList == << <<>>, <<"/", "v">>, <<"/", "w">> >>


BaseArgs == {BaseArgList[i] : i \in 1..NumBases}

\* the values of --base-dir the list command is also given: a directory
\* somebody else has filled
ListBaseArgs == BaseArgs \cup { <<"/", "u">> }

\* the values of --requirements; <<>> is the flag left out
ReqArgList ==
    << <<>>,
       <<"/", "m", "/", "comments.txt">>,
       <<"/", "m", "/", "pinned.txt">>,
       <<"/", "m", "/", "ranged.txt">> >>

ReqArgs == {ReqArgList[i] : i \in 1..Len(ReqArgList)}

\* the manifest files on disk and their text; ./requirements.txt is missing
ManifestFiles ==
    { << <<"m">>, <<"comments.txt">> >>,
      << <<"m">>, <<"pinned.txt">> >>,
      << <<"m">>, <<"ranged.txt">> >> }

ManifestText(path) ==
    CASE path = << <<"m">>, <<"comments.txt">> >> ->
            <<"#", " dependencies", "\n", "\n", " ", "\t", "\n", " ", "#", "x", "\n">>
      [] path = << <<"m">>, <<"pinned.txt">> >> ->
            <<"#", " pinned", "\n", " ", "urllib3==2.0.7", " ", "\n", "\n">>
      [] path = << <<"m">>, <<"ranged.txt">> >> ->
            <<"requests>=2.25.0", "\n">>
      [] OTHER -> <<>>

\* the answers typed at the confirmation prompt
Answers == { <<>>, <<"y">>, <<"Y", "E", "S">>, <<"y", "e">> }

(***************************************************************************)
(* The installer (pip) of an environment: an external collaborator.       *)
(***************************************************************************)
\* the order in which `pip freeze` prints
FreezeOrder == << <<"requests==2.31.0">>, <<"urllib3==2.0.7">> >>

\* what installing one requirement line puts into the environment
Resolve(req) ==
    CASE req = <<"urllib3==2.0.7">> -> { <<"urllib3==2.0.7">> }
      [] req = <<"requests>=2.25.0">> -> { <<"requests==2.31.0">>, <<"urllib3==2.0.7">> }
      [] OTHER -> {}

\* stdout of `pip freeze` for an environment holding the packages pkgs
RECURSIVE FreezeFrom(_, _)
FreezeFrom(i, pkgs) ==
    IF i > Len(FreezeOrder) THEN <<>>
    ELSE (IF FreezeOrder[i] \in pkgs THEN FreezeOrder[i] \o <<"\n">> ELSE <<>>)
         \o FreezeFrom(i + 1, pkgs)

FreezeStdout(pkgs) == FreezeFrom(1, pkgs)

(***************************************************************************)
(* State.                                                                  *)
(***************************************************************************)
VARIABLES
    dirs,          \* the directories that exist
    files,         \* the regular files that exist below the base directories
    activate,      \* the directories E with E/bin/activate (and E/bin/pip)
    winact,        \* the directories E with E/Scripts/activate.bat
    installed,     \* <<E, line>>: the installer of E lists the package line
    venvlocation,  \* <cwd>/.venvlocation: [exists, content]
    venv_shell,    \* <cwd>/venv_shell: [exists, content]
    last           \* what the last invocation was given, did and printed

fsvars == <<dirs, files, activate, winact, installed, venvlocation, venv_shell>>

vars == <<dirs, files, activate, winact, installed, venvlocation, venv_shell, last>>

NoFile == [exists |-> FALSE, content |-> <<>>]

\* the filesystem and the transcript, as the methods thread it
World ==
    [dirs |-> dirs, files |-> files, activate |-> activate, winact |-> winact,
     installed |-> installed, venvlocation |-> venvlocation,
     venv_shell |-> venv_shell, out |-> <<>>, calls |-> <<>>, failed |-> <<>>,
     exc |-> "None"]

Say(W, msg) == [W EXCEPT !.out = Append(@, msg)]

Call(W, cmd) == [W EXCEPT !.calls = Append(@, cmd)]

\* a call of a collaborator raised or exited non-zero
Fail(W, cmd) == [W EXCEPT !.failed = Append(@, cmd)]

\* an exception is in flight; an except clause that matches it ends the flight
Raise(W, e) == [W EXCEPT !.exc = e]

Caught(W) == [W EXCEPT !.exc = "None"]

InstalledAt(W, path) == {x[2] : x \in {y \in W.installed : y[1] = path}}

\* Path.exists()
Exists(W, path) == path \in W.dirs \/ path \in W.files

Range(seq) == {seq[i] : i \in DOMAIN seq}

(***************************************************************************)
(* Package Set Comparator.                                                 *)
(***************************************************************************)
\* the requirement lines of a manifest text: stripped, no blanks, no comments
RequiredLines(text) ==
    {Strip(l) : l \in {x \in Range(Split(text, "\n")) :
                           Strip(x) # <<>> /\ ~StartsWith(Strip(x), <<"#">>)}}

\* get_required_packages: [W, ret]
GetRequiredPackages(W, req_path) ==
    IF req_path \notin ManifestFiles
    THEN [W |-> Say(W, "Requirements file not found."), ret |-> {}]
    ELSE [W |-> W, ret |-> RequiredLines(ManifestText(req_path))]

\* the lines of a freeze listing
ParseFreeze(stdout) ==
    IF Strip(stdout) # <<>> THEN Range(Split(Strip(stdout), "\n")) ELSE {}

\* get_installed_packages: [W, ret, raised]; the installer of a directory that
\* holds no environment cannot be run, and subprocess.run raises
GetInstalledPackages(W, venv_path, F) ==
    LET W1 == Call(W, "pip freeze") IN
    IF venv_path \notin W.activate \/ "freeze_norun" \in F
    THEN [W |-> Raise(Fail(W1, "pip freeze"), "FileNotFoundError"),
          ret |-> {}, raised |-> TRUE]
    ELSE IF "interrupt" \in F
    THEN [W |-> Raise(Fail(W1, "pip freeze"), "KeyboardInterrupt"),
          ret |-> {}, raised |-> TRUE]
    ELSE IF "freeze_fail" \in F
    THEN [W |-> Say(Fail(W1, "pip freeze"), "Error getting installed packages"),
          ret |-> {}, raised |-> FALSE]
    ELSE [W |-> W1,
          ret |-> ParseFreeze(FreezeStdout(InstalledAt(W, venv_path))),
          raised |-> FALSE]

\* what `pip install -r manifest` adds to an environment
PipInstall(req_path) ==
    UNION {Resolve(r) : r \in RequiredLines(ManifestText(req_path))}

InstallFailedResultTrue == TRUE

\* what install_packages returns when an installer command exits non-zero
InstallFailedResult == FALSE

\* install_packages: [W, ret]
InstallPackages(W, venv_path, req_path, F) ==
    IF req_path \notin ManifestFiles
    THEN [W |-> Say(W, "No requirements.txt found, skipping package installation."),
          ret |-> TRUE]
    ELSE
    LET W1 == Call(Say(W, "Upgrading pip..."), "pip install -U pip") IN
    IF "pip_upgrade" \in F
    THEN [W |-> Say(Fail(W1, "pip install -U pip"), "Error installing packages"),
          ret |-> InstallFailedResult]
    ELSE
    LET W2 == Call(Say(W1, "Installing packages from requirements"), "pip install -r") IN
    IF "pip_install" \in F
    THEN [W |-> Say(Fail(W2, "pip install -r"), "Error installing packages"),
          ret |-> InstallFailedResult]
    ELSE [W |-> [W2 EXCEPT !.installed =
                     @ \cup {<<venv_path, x>> : x \in PipInstall(req_path)}],
          ret |-> TRUE]

(***************************************************************************)
(* Environment Lifecycle Controller.                                       *)
(***************************************************************************)
\* check_venv_module: the module was imported when the script was loaded
CheckVenvModule == TRUE

\* create_venv_location_file
CreateVenvLocationFile(W, venv_path, F) ==
    IF "marker_write" \in F
    THEN Say(Fail(W, "write .venvlocation"),
             "Warning: Could not create .venvlocation file")
    ELSE Say([W EXCEPT !.venvlocation =
                  [exists |-> TRUE, content |-> PathStr(venv_path) \o <<"\n">>]],
             "Created .venvlocation")

\* a regular file stands where a directory is needed
Blocked(W, path) == \E a \in Ancestors(path) : a \in W.files

\* create_virtual_environment: [W, ret]
CreateVirtualEnvironment(W, venv_path, base_dir, req_path, F) ==
    IF Blocked(W, base_dir)
    THEN [W |-> Say(Fail(W, "mkdir"), "Error creating virtual environment"),
          ret |-> FALSE]
    ELSE
    LET W1 == Call(Say(Say([W EXCEPT !.dirs = @ \cup Ancestors(base_dir)],
                           "Created base directory"),
                       "Creating virtual environment in"),
                   "venv.create")
    IN
    IF "interrupt" \in F
    THEN [W |-> Raise(Fail(W1, "venv.create"), "KeyboardInterrupt"), ret |-> FALSE]
    ELSE IF "venv_mkdir" \in F \/ Blocked(W1, venv_path)
    THEN [W |-> Say(Fail(W1, "venv.create"), "Error creating virtual environment"),
          ret |-> FALSE]
    ELSE IF "venv_pip" \in F
    THEN [W |-> Say(Fail([W1 EXCEPT !.dirs = @ \cup Ancestors(venv_path)],
                         "venv.create"),
                    "Error creating virtual environment"),
          ret |-> FALSE]
    ELSE
    LET W2 == [W1 EXCEPT !.dirs = @ \cup Ancestors(venv_path),
                         !.activate = @ \cup {venv_path}]
        W3 == CreateVenvLocationFile(W2, venv_path, F)
    IN  InstallPackages(W3, venv_path, req_path, F)

\* `not self.venvlocation_file.exists()`
MarkerMissingAlways(W) == TRUE

MarkerMissing(W) == ~W.venvlocation.exists

\* `installed != required`, on sets of lines
PackagesDifferAlways(inst, req) == TRUE

PackagesDifferWhenMissing(inst, req) == ~(req \subseteq inst)

PackagesDiffer(inst, req) == inst # req

\* a result of a method that lets no exception out
NotRaised(c) == [W |-> c.W, ret |-> c.ret, raised |-> FALSE]

\* a result of a method whose except clause is `except Exception`
RaisedIfInFlight(c) == [W |-> c.W, ret |-> c.ret, raised |-> c.W.exc # "None"]

\* update_virtual_environment, from `if not required:` on
Reconcile(inst, req, venv_path, req_path, F) ==
    IF req.ret = {}
    THEN [W |-> Say(req.W, "No requirements.txt found or it's empty."),
          ret |-> TRUE, raised |-> FALSE]
    ELSE IF PackagesDiffer(inst.ret, req.ret)
    THEN NotRaised(InstallPackages(
                       Say(req.W, "Package requirements have changed, installing/updating packages..."),
                       venv_path, req_path, F))
    ELSE [W |-> Say(req.W, "All required packages are already installed."),
          ret |-> TRUE, raised |-> FALSE]

\* update_virtual_environment, from `installed = ...` on; an exception of the
\* listing leaves the method
CompareInstalled(inst, venv_path, req_path, F) ==
    IF inst.raised
    THEN [W |-> inst.W, ret |-> FALSE, raised |-> TRUE]
    ELSE Reconcile(inst, GetRequiredPackages(inst.W, req_path), venv_path, req_path, F)

\* update_virtual_environment: [W, ret, raised]
UpdateVirtualEnvironment(W, venv_path, req_path, F) ==
    CompareInstalled(
        GetInstalledPackages(
            IF MarkerMissing(W)
            THEN CreateVenvLocationFile(
                     Say(W, "Virtual environment already exists, checking packages..."),
                     venv_path, F)
            ELSE Say(W, "Virtual environment already exists, checking packages..."),
            venv_path, F),
        venv_path, req_path, F)

\* the text create_activation_script writes
ActivationScriptText(venv_path) ==
    <<"#!/bin/bash\n# Automatically generated ...\necho \"Starting new shell with virtual environment '">>
    \o PathName(venv_path)
    \o <<"' activated...\"\necho \"Type 'exit' ...\"\necho \"Virtual environment path: ">>
    \o PathStr(venv_path)
    \o <<"\"\necho \"\"\ncd \"">>
    \o PathStr(Cwd)
    \o <<"\"\nsource ">>
    \o PathStr(venv_path)
    \o <<"/bin/activate\nexec \"$SHELL\"\n">>

\* create_activation_script
CreateActivationScript(W, venv_path, F) ==
    IF "script_write" \in F
    THEN Say(Fail(W, "write venv_shell"),
             "Warning: Could not create activation script")
    ELSE IF "script_chmod" \in F
    THEN Say(Fail([W EXCEPT !.venv_shell =
                       [exists |-> TRUE, content |-> ActivationScriptText(venv_path)]],
                  "chmod venv_shell"),
             "Warning: Could not create activation script")
    ELSE Say([W EXCEPT !.venv_shell =
                  [exists |-> TRUE, content |-> ActivationScriptText(venv_path)]],
             "Created activation script")

\* the test setup makes to choose update or create
ActivateScriptExists(W, venv_path) == venv_path \in W.activate

FinishSetupRegardless(r, venv_path, F) ==
    IF r.raised THEN r
    ELSE [W |-> CreateActivationScript(r.W, venv_path, F),
          ret |-> r.ret, raised |-> FALSE]

\* setup, from `if success:` on
FinishSetup(r, venv_path, F) ==
    IF r.raised THEN r
    ELSE IF r.ret
    THEN [W |-> CreateActivationScript(
                    Say(r.W, "Virtual Environment setup completed!"), venv_path, F),
          ret |-> TRUE, raised |-> FALSE]
    ELSE r

\* setup: [W, ret, raised]
Setup(W, venv_path, base_dir, req_path, F) ==
    IF ~CheckVenvModule
    THEN [W |-> W, ret |-> FALSE, raised |-> FALSE]
    ELSE FinishSetup(
             IF ActivateScriptExists(W, venv_path)
             THEN UpdateVirtualEnvironment(W, venv_path, req_path, F)
             ELSE RaisedIfInFlight(CreateVirtualEnvironment(W, venv_path, base_dir,
                                                            req_path, F)),
             venv_path, F)

(***************************************************************************)
(* Filesystem Inspector and Inventory Reporter.                            *)
(***************************************************************************)
NoInfo == [present |-> FALSE, name |-> <<>>, path |-> <<>>, packages_count |-> 0]

\* get_venv_info, after the listing of the packages
InfoWithPackages(pk, info) ==
    IF pk.raised
    THEN [W |-> Say(Caught(pk.W), "Warning: Could not get complete info"),
          info |-> info]
    ELSE [W |-> pk.W, info |-> [info EXCEPT !.packages_count = Cardinality(pk.ret)]]

\* get_venv_info: [W, info]; a failure of the enrichment is caught and warned
GetVenvInfo(W, venv_name, venv_path, F) ==
    IF ~Exists(W, venv_path)
    THEN [W |-> W, info |-> NoInfo]
    ELSE InfoWithPackages(
             GetInstalledPackages(
                 IF venv_path \in W.activate THEN Call(W, "python --version") ELSE W,
                 venv_path, F),
             [present |-> TRUE, name |-> venv_name,
              path |-> PathStr(venv_path), packages_count |-> 0])

\* the order of str on the characters directory names are spelled with
Alphabet == <<".", "_", "c", "d", "e", "f", "h", "m", "p", "q", "v", "w">>

CharCode(c) == CHOOSE i \in 1..Len(Alphabet) : Alphabet[i] = c

RECURSIVE StrLess(_, _)
StrLess(a, b) ==
    IF b = <<>> THEN FALSE
    ELSE IF a = <<>> THEN TRUE
    ELSE IF Head(a) = Head(b) THEN StrLess(Tail(a), Tail(b))
    ELSE CharCode(Head(a)) < CharCode(Head(b))

\* the order of Path: by components
RECURSIVE PathLess(_, _)
PathLess(p, q) ==
    IF q = <<>> THEN FALSE
    ELSE IF p = <<>> THEN TRUE
    ELSE IF Head(p) = Head(q) THEN PathLess(Tail(p), Tail(q))
    ELSE StrLess(Head(p), Head(q))

\* the entries of a set in the order iterdir happens to yield them
RECURSIVE SetToSeq(_)
SetToSeq(S) ==
    IF S = {} THEN <<>>
    ELSE LET x == CHOOSE y \in S : TRUE IN <<x>> \o SetToSeq(S \ {x})

\* item.is_dir() for the entries of base_dir
SubDirs(W, base_dir) ==
    {d \in W.dirs : Len(d) = Len(base_dir) + 1 /\ IsUnder(d, base_dir)}

LooksLikeVenvWindowsOnly(W, item) == item \in W.winact

LooksLikeVenvPosixOnly(W, item) == item \in W.activate

\* "looks like a virtual environment": either layout of the activation marker
LooksLikeVenv(W, item) == item \in W.activate \/ item \in W.winact

\* one more row in front of the rows that follow it
PrependRow(info, rest) ==
    [W |-> rest.W,
     names |-> <<info.name>> \o rest.names,
     counts |-> <<info.packages_count>> \o rest.counts]

\* the rows of the listing: [W, names, counts]
RECURSIVE ListRows(_, _, _, _)
RowsAfter(g, base_dir, venv_dirs, F) ==
    PrependRow(g.info, ListRows(g.W, base_dir, venv_dirs, F))

ListRows(W, base_dir, venv_dirs, F) ==
    IF venv_dirs = <<>>
    THEN [W |-> W, names |-> <<>>, counts |-> <<>>]
    ELSE RowsAfter(GetVenvInfo(W, PathName(Head(venv_dirs)),
                               PathJoin(base_dir, PathName(Head(venv_dirs))), F),
                   base_dir, Tail(venv_dirs), F)

\* list_environments, the rows and the closing line
PrintRows(rows, detailed) ==
    IF detailed
    THEN [W |-> rows.W, names |-> rows.names, counts |-> rows.counts, found |-> -1]
    ELSE [W |-> Say(rows.W, "Found {n} virtual environment(s)"),
          names |-> rows.names, counts |-> rows.counts,
          found |-> Len(rows.names)]

\* list_environments, once the base directory is known to exist
ListFound(W, base_dir, venv_dirs, detailed, F) ==
    IF venv_dirs = <<>>
    THEN [W |-> Say(W, "No virtual environments found in"),
          names |-> <<>>, counts |-> <<>>, found |-> -1]
    ELSE PrintRows(ListRows(Say(W, "Virtual environments in"), base_dir,
                            SortSeq(venv_dirs, PathLess), F),
                   detailed)

\* list_environments: [W, names, counts, found]; found is the number the
\* "Found {n} virtual environment(s)" line prints, -1 when it is not printed
ListEnvironments(W, base_dir, detailed, F) ==
    IF ~Exists(W, base_dir)
    THEN [W |-> Say(W, "Base directory does not exist."),
          names |-> <<>>, counts |-> <<>>, found |-> -1]
    ELSE ListFound(W, base_dir,
                   SetToSeq({d \in SubDirs(W, base_dir) : LooksLikeVenv(W, d)}),
                   detailed, F)

(***************************************************************************)
(* Environment Removal.                                                    *)
(***************************************************************************)
\* shutil.rmtree(path): path and all below it are gone
RmTree(W, path) ==
    [W EXCEPT !.dirs = {d \in @ : ~IsUnder(d, path)},
              !.files = {d \in @ : ~IsUnder(d, path)},
              !.activate = {d \in @ : ~IsUnder(d, path)},
              !.winact = {d \in @ : ~IsUnder(d, path)},
              !.installed = {x \in @ : ~IsUnder(x[1], path)}]

\* Path(stored_path) == self.venv_path
MarkerPointsTo(content, venv_path) ==
    LET stored_path == Strip(content)
    IN  IsAbsolute(stored_path) /\ ParseParts(stored_path) = venv_path

\* str(self.venv_path) in content
ScriptPointsTo(content, venv_path) == Contains(content, PathStr(venv_path))

\* the conditional removal of .venvlocation
CleanupMarker(W, venv_path, F) ==
    IF ~W.venvlocation.exists THEN W
    ELSE IF "marker_read" \in F
    THEN Say(Fail(W, "read .venvlocation"),
             "Warning: Could not remove .venvlocation file")
    ELSE IF ~MarkerPointsTo(W.venvlocation.content, venv_path) THEN W
    ELSE IF "marker_unlink" \in F
    THEN Say(Fail(W, "unlink .venvlocation"),
             "Warning: Could not remove .venvlocation file")
    ELSE Say([W EXCEPT !.venvlocation = NoFile], "Removed .venvlocation file")

\* the conditional removal of venv_shell
CleanupScript(W, venv_path, F) ==
    IF ~W.venv_shell.exists THEN W
    ELSE IF "script_read" \in F
    THEN Say(Fail(W, "read venv_shell"),
             "Warning: Could not remove venv_shell script")
    ELSE IF ~ScriptPointsTo(W.venv_shell.content, venv_path) THEN W
    ELSE IF "script_unlink" \in F
    THEN Say(Fail(W, "unlink venv_shell"),
             "Warning: Could not remove venv_shell script")
    ELSE Say([W EXCEPT !.venv_shell = NoFile], "Removed venv_shell activation script")

\* the answers that confirm a removal
Confirms(response) == Lower(response) \in { <<"y">>, <<"y", "e", "s">> }

\* the test remove_environment makes before anything else
RemoveTargetExists(W, venv_path) == Exists(W, venv_path)

CancelledResultTrue == TRUE

\* what remove_environment returns when the answer does not confirm
CancelledResult == FALSE

\* the conditional removals share one try block
CleanupInOneTry(W, venv_path, F) ==
    IF Len(CleanupMarker(W, venv_path, F).failed) > Len(W.failed)
    THEN CleanupMarker(W, venv_path, F)
    ELSE CleanupScript(CleanupMarker(W, venv_path, F), venv_path, F)

RemoveConfirmedInOneTry(W, venv_path, F) ==
    IF "rmtree" \in F \/ venv_path \in W.files
    THEN [W |-> Say(Fail(W, "rmtree"), "Error removing virtual environment"),
          ret |-> FALSE]
    ELSE [W |-> CleanupInOneTry(
                    Say(RmTree(W, venv_path), "Successfully removed virtual environment"),
                    venv_path, F),
          ret |-> TRUE]

\* remove_environment, from `try:` on
RemoveConfirmed(W, venv_path, F) ==
    IF "rmtree" \in F \/ venv_path \in W.files
    THEN [W |-> Say(Fail(W, "rmtree"), "Error removing virtual environment"),
          ret |-> FALSE]
    ELSE [W |-> CleanupScript(
                    CleanupMarker(
                        Say(RmTree(W, venv_path), "Successfully removed virtual environment"),
                        venv_path, F),
                    venv_path, F),
          ret |-> TRUE]

\* remove_environment, the prompt
AskConfirmation(W, venv_path, response, F) ==
    IF ~Confirms(response)
    THEN [W |-> Say(W, "Deletion cancelled."), ret |-> CancelledResult]
    ELSE RemoveConfirmed(W, venv_path, F)

\* remove_environment: [W, ret]
RemoveEnvironment(W, venv_name, venv_path, force, response, F) ==
    IF ~RemoveTargetExists(W, venv_path)
    THEN [W |-> Say(W, "Virtual environment does not exist"), ret |-> FALSE]
    ELSE IF force
    THEN RemoveConfirmed(W, venv_path, F)
    ELSE AskConfirmation(
             Call(Say(GetVenvInfo(W, venv_name, venv_path, F).W,
                      "Environment to be deleted:"),
                  "input"),
             venv_path, response, F)

(***************************************************************************)
(* Command Surface.                                                        *)
(***************************************************************************)
\* the tokens main looks for in sys.argv
Subcommands ==
    { <<"l", "i", "s", "t">>,
      <<"r", "e", "m", "o", "v", "e">>,
      <<"c", "r", "e", "a", "t", "e">> }

\* any(cmd in sys.argv for cmd in subcommands)
HasSubcommand(argv) == \E i \in DOMAIN argv : argv[i] \in Subcommands

\* the tokens of a flag with its value, and of a switch
Opt(flag, value) == IF value = <<>> THEN <<>> ELSE << <<flag>>, value >>

Switch(flag, on) == IF on THEN << <<flag>> >> ELSE <<>>

\* the argument list that gives the flags of create their values
SetupArgv(name, base, req, verbose) ==
    Opt("--name", name) \o Opt("--base-dir", base) \o Opt("--requirements", req)
    \o Switch("--verbose", verbose)

\* what the parser stores for a flag that takes a value: <<>> for None
FlagValue(argv, flag) ==
    IF \E i \in 1..(Len(argv) - 1) : argv[i] = <<flag>>
    THEN argv[(CHOOSE i \in 1..(Len(argv) - 1) : argv[i] = <<flag>>) + 1]
    ELSE <<>>

HasSwitch(argv, flag) == \E i \in DOMAIN argv : argv[i] = <<flag>>

\* args.name or Path.cwd().name
ResolveName(name) == IF name # <<>> THEN name ELSE PathName(Cwd)

\* args.base_dir or Path.home() / "virtual_environments"
ResolveBaseDir(base) == IF base # <<>> THEN ParseParts(base) ELSE DefaultBaseDir

\* args.requirements or Path.cwd() / "requirements.txt"
ResolveRequirements(req) ==
    IF req # <<>> THEN ParseParts(req) ELSE Cwd \o << <<"requirements.txt">> >>

\* the defaults of main_create_legacy
LegacyResolveNameNoDefault(name) == name

LegacyResolveName(name) == IF name # <<>> THEN name ELSE PathName(Cwd)

LegacyResolveBaseDir(base) == IF base # <<>> THEN ParseParts(base) ELSE DefaultBaseDir

LegacyResolveRequirements(req) ==
    IF req # <<>> THEN ParseParts(req) ELSE Cwd \o << <<"requirements.txt">> >>

\* VirtualEnvironmentSetup.__init__: self.venv_path
VenvPath(base_dir, venv_name) == PathJoin(base_dir, venv_name)

\* the faults one invocation may meet
FaultSets(kinds) == {F \in SUBSET kinds : Cardinality(F) <= MaxFaults}

SetupFaults ==
    {"venv_mkdir", "venv_pip", "marker_write", "pip_upgrade", "pip_install",
     "freeze_fail", "freeze_norun", "script_write", "script_chmod", "interrupt"}

ListFaults == {"freeze_fail", "freeze_norun"}

RemoveFaults ==
    {"freeze_fail", "freeze_norun", "rmtree", "marker_read", "marker_unlink",
     "script_read", "script_unlink"}

NoLast ==
    [cmd |-> "none", argv |-> <<>>, venv_path |-> <<>>, base_dir |-> <<>>,
     req |-> <<>>, force |-> FALSE, response |-> <<>>, ret |-> "None", exit |-> 0,
     out |-> <<>>, calls |-> <<>>, failed |-> <<>>,
     names |-> <<>>, counts |-> <<>>, found |-> -1]

\* the filesystem of W becomes the state, and rec what the invocation did
Commit(W, rec) ==
    /\ dirs' = W.dirs
    /\ files' = W.files
    /\ activate' = W.activate
    /\ winact' = W.winact
    /\ installed' = W.installed
    /\ venvlocation' = W.venvlocation
    /\ venv_shell' = W.venv_shell
    /\ last' = [rec EXCEPT !.out = W.out, !.calls = W.calls, !.failed = W.failed]

ExitOfInverted(success) == IF success THEN 1 ELSE 0

\* return 0 if success else 1
ExitOf(success) == IF success THEN 0 ELSE 1

\* the parser rejects the argument list: it prints the usage and exits with 2
UsageError(W, argv) ==
    [W |-> Say(W, "usage: error"),
     rec |-> [NoLast EXCEPT !.cmd = "usage", !.argv = argv, !.exit = 2]]

\* the end of an invocation that ran setup: the return, or the except clauses
\* around the call; interrupted is the line the KeyboardInterrupt clause prints
EndOfSetup(r, rec, interrupted) ==
    IF r.raised
    THEN [W |-> Say(r.W, IF r.W.exc = "KeyboardInterrupt"
                         THEN interrupted ELSE "Unexpected error"),
          rec |-> [rec EXCEPT !.ret = "raised", !.exit = 1]]
    ELSE [W |-> r.W,
          rec |-> [rec EXCEPT !.ret = IF r.ret THEN "True" ELSE "False",
                              !.exit = ExitOf(r.ret)]]

\* main, the branch `command == "create"`: [W, rec]
MainCreate(W, name, base, req, verbose, F) ==
    LET venv_name == ResolveName(name)
        base_dir == ResolveBaseDir(base)
        requirements_file == ResolveRequirements(req)
        venv_path == VenvPath(base_dir, venv_name)
        W0 == IF verbose
              THEN Say(Say(W, "Command: create"),
                       "Virtual environment name, base directory, requirements file")
              ELSE W
        rec == [NoLast EXCEPT !.cmd = "create",
                              !.argv = << <<"c", "r", "e", "a", "t", "e">> >>
                                       \o SetupArgv(name, base, req, verbose),
                              !.venv_path = venv_path,
                              !.base_dir = base_dir, !.req = requirements_file]
    IN  EndOfSetup(Setup(W0, venv_path, base_dir, requirements_file, F), rec,
                   "Operation interrupted by user.")

\* main_create_legacy, after --help: [W, rec]
MainCreateLegacy(W, name, base, req, verbose, F) ==
    LET venv_name == LegacyResolveName(name)
        base_dir == LegacyResolveBaseDir(base)
        requirements_file == LegacyResolveRequirements(req)
        venv_path == VenvPath(base_dir, venv_name)
        W0 == IF verbose
              THEN Say(W, "Virtual environment name, base directory, requirements file")
              ELSE W
        rec == [NoLast EXCEPT !.cmd = "legacy",
                              !.argv = SetupArgv(name, base, req, verbose),
                              !.venv_path = venv_path,
                              !.base_dir = base_dir, !.req = requirements_file]
    IN  EndOfSetup(Setup(W0, venv_path, base_dir, requirements_file, F), rec,
                   "Setup interrupted by user.")

\* main when sys.argv holds no subcommand in first place: legacy mode unless
\* one of the tokens occurs among the arguments, and then parse_arguments
\* meets a flag main's parser does not know
MainWithoutSubcommand(W, name, base, req, verbose, F) ==
    IF HasSubcommand(SetupArgv(name, base, req, verbose))
    THEN UsageError(W, SetupArgv(name, base, req, verbose))
    ELSE MainCreateLegacy(W, name, base, req, verbose, F)

\* the faults and the verbosity of the runs of setup: the verbose lines are
\* looked at on the runs that meet no fault
SetupRuns ==
    {x \in BOOLEAN \X FaultSets(SetupFaults) : x[1] => x[2] = {}}

\* the ways a call of setup ends that main_create_legacy tells apart: it
\* returns False, it raises an Exception, it is interrupted
LegacyFaults == {"pip_install", "freeze_norun", "interrupt"}

LegacyRuns ==
    {x \in BOOLEAN \X FaultSets(LegacyFaults) : x[1] => x[2] = {}}

\* main with the subcommand create
CmdCreate ==
    \/ \E name \in NameArgs, base \in BaseArgs, req \in ReqArgs, x \in SetupRuns :
           \E m \in {MainCreate(World, name, base, req, x[1], x[2])} :
               Commit(m.W, m.rec)
    \/ \* a flag the parser of create does not know
       \E m \in {UsageError(World, << <<"c", "r", "e", "a", "t", "e">>, <<"--bogus">> >>)} :
           Commit(m.W, m.rec)

\* the values of --name given without a subcommand
LegacyNameArgs == NameArgs \cup { <<"l", "i", "s", "t">> }

\* main without a subcommand
CmdLegacy ==
    \/ \E name \in LegacyNameArgs, base \in BaseArgs, req \in ReqArgs,
          x \in LegacyRuns :
           \E m \in {MainWithoutSubcommand(World, name, base, req, x[1], x[2])} :
               Commit(m.W, m.rec)
    \/ \* --help: print_legacy_help
       Commit(Say(World, "Python Virtual Environment Setup Tool"),
              [NoLast EXCEPT !.cmd = "help", !.argv = << <<"--help">> >>])

\* main with the subcommand list
CmdList ==
    \E base \in ListBaseArgs, detailed \in BOOLEAN, F \in FaultSets(ListFaults) :
        \E r \in {ListEnvironments(World, ResolveBaseDir(base), detailed, F)} :
            Commit(r.W, [NoLast EXCEPT !.cmd = "list",
                                       !.argv = << <<"l", "i", "s", "t">> >>
                                                \o Opt("--base-dir", base)
                                                \o Switch("--detailed", detailed),
                                       !.base_dir = ResolveBaseDir(base),
                                       !.names = r.names, !.counts = r.counts,
                                       !.found = r.found, !.exit = 0])

\* the argument list of remove
RemoveArgv(name, base, force) ==
    << <<"r", "e", "m", "o", "v", "e">>, <<"--name">>, name >>
    \o Opt("--base-dir", base) \o Switch("--force", force)

\* main with the subcommand remove, --name given and not empty
RunRemove(name, base, force, response, F) ==
    LET base_dir == ResolveBaseDir(base)
        venv_path == VenvPath(base_dir, name)
    IN  \E r \in {RemoveEnvironment(World, name, venv_path, force, response, F)} :
            Commit(r.W,
                   [NoLast EXCEPT !.cmd = "remove",
                                  !.argv = RemoveArgv(name, base, force),
                                  !.base_dir = base_dir,
                                  !.force = force, !.venv_path = venv_path,
                                  !.response = response,
                                  !.ret = IF r.ret THEN "True" ELSE "False",
                                  !.exit = ExitOf(r.ret)])

\* main with the subcommand remove
CmdRemove ==
    \/ \E name \in RemoveNameArgs \ {<<>>}, base \in BaseArgs,
          F \in FaultSets(RemoveFaults \ ListFaults) :
           RunRemove(name, base, TRUE, <<>>, F)
    \/ \E name \in RemoveNameArgs \ {<<>>}, base \in BaseArgs,
          response \in Answers, F \in FaultSets(ListFaults) :
           RunRemove(name, base, FALSE, response, F)
    \/ \* --name "": `if not venv_name`
       \E base \in BaseArgs :
           Commit(Say(World, "Error: Virtual environment name is required for remove command"),
                  [NoLast EXCEPT !.cmd = "remove",
                                 !.argv = RemoveArgv(<<>>, base, FALSE),
                                 !.base_dir = ResolveBaseDir(base), !.exit = 1])
    \/ \* --name left out: the flag is required
       \E force \in BOOLEAN :
           \E m \in {UsageError(World, << <<"r", "e", "m", "o", "v", "e">> >>
                                       \o Switch("--force", force))} :
               Commit(m.W, m.rec)

(***************************************************************************)
(* The filesystem before the first invocation.                             *)
(***************************************************************************)
\* the directories that exist on any machine the tool runs on
SystemDirs == Ancestors(Cwd) \cup Ancestors(Home) \cup { << <<"m">> >> }

\* a directory somebody has filled before: a plain directory that is not
\* empty, a regular file and an environment of the Windows layout
UsedBase == << <<"u">> >>

Init ==
    /\ dirs = SystemDirs \cup {UsedBase,
                               UsedBase \o << <<"d">> >>,
                               UsedBase \o << <<"d">>, <<"d">> >>,
                               UsedBase \o << <<"e">> >>}
    /\ files = {UsedBase \o << <<"f">> >>}
    /\ winact = {UsedBase \o << <<"e">> >>}
    /\ activate = {}
    /\ installed = {}
    /\ venvlocation = NoFile
    /\ venv_shell = NoFile
    /\ last = NoLast

Next == CmdCreate \/ CmdLegacy \/ CmdList \/ CmdRemove

Spec == Init /\ [][Next]_vars

(***************************************************************************)
(* Vocabulary of the properties.                                           *)
(***************************************************************************)
IsSetup(l) == l.cmd \in {"create", "legacy"}

IsRemove(l) == l.cmd = "remove" /\ l.ret # "None"

Printed(l, msg) == \E i \in DOMAIN l.out : l.out[i] = msg

Called(l, cmd) == \E i \in DOMAIN l.calls : l.calls[i] = cmd

Failed(l, cmd) == \E i \in DOMAIN l.failed : l.failed[i] = cmd

InstallerInvoked(l) == Called(l, "pip install -U pip") \/ Called(l, "pip install -r")

Occurrences(seq, x) == Cardinality({i \in DOMAIN seq : seq[i] = x})

\* the text .venvlocation holds when it records the environment at path
MarkerTextFor(path) == PathStr(path) \o <<"\n">>

\* the environments the commands can name
EnvPaths ==
    {ResolveBaseDir(b) \o ParseParts(ResolveName(n)) :
        b \in BaseArgs, n \in NameArgs \cup RemoveNameArgs}

\* the activation marker of either layout is present in the directory
HasActivationMarker(path) == path \in activate \/ path \in winact

\* the immediate subdirectories of base_dir that hold an activation marker
QualifyingDirs(base_dir) ==
    {d \in dirs : Len(d) = Len(base_dir) + 1
                  /\ SubSeq(d, 1, Len(base_dir)) = base_dir
                  /\ HasActivationMarker(d)}

(***************************************************************************)
(* C1.  Cleanup scoping.                                                   *)
(***************************************************************************)
\* .venvlocation records the environment B
MarkerReferences(B) == venvlocation.exists /\ venvlocation.content = MarkerTextFor(B)

\* venv_shell is the script that was generated for the environment B
ScriptReferences(B) == venv_shell.exists /\ venv_shell.content = ActivationScriptText(B)

\* C1: a confirmed remove of environment A never deletes .venvlocation or
\* venv_shell while that file references another environment B.
C1_CleanupScoping ==
    [][ (IsRemove(last') /\ last'.ret = "True") =>
            \A B \in EnvPaths \ {last'.venv_path} :
                /\ MarkerReferences(B) => venvlocation' = venvlocation
                /\ ScriptReferences(B) => venv_shell' = venv_shell ]_vars

\* C1, the half that holds: .venvlocation is deleted only for the removed path
C1_MarkerScoped ==
    [][ (IsRemove(last') /\ last'.ret = "True") =>
            \A B \in EnvPaths \ {last'.venv_path} :
                MarkerReferences(B) => venvlocation' = venvlocation ]_vars

(***************************************************************************)
(* C2.  Idempotence of create.                                             *)
(***************************************************************************)
\* setup was run again for the same environment with the same manifest, right
\* after a run that succeeded
SecondRun ==
    /\ IsSetup(last) /\ last.ret = "True"
    /\ IsSetup(last') /\ last'.venv_path = last.venv_path /\ last'.req = last.req

\* the second run could read the freeze listing of the environment
ListingRead(l) == ~Printed(l, "Error getting installed packages") /\ l.ret # "raised"

\* C2 as stated: for every manifest, a second setup of X right after a
\* successful one, manifest unchanged and the environment as the first run
\* left it, invokes no package installation.
C2_IdempotentForEveryManifest ==
    [][ (SecondRun /\ ListingRead(last')) => ~InstallerInvoked(last') ]_vars

\* the freeze listing of the environment, as the second run reads it, is line
\* for line the required set of the manifest
ListingEqualsManifest(l) ==
    /\ ListingRead(l)
    /\ {x[2] : x \in {y \in installed : y[1] = l.venv_path}}
           = RequiredLines(ManifestText(l.req))

\* C2 amended: the second run invokes no package installation when the
\* manifest has no requirement line, or when the freeze listing succeeds and
\* equals the required set line for line.
C2_IdempotentWhenListingMatches ==
    [][ (SecondRun /\ (RequiredLines(ManifestText(last'.req)) = {}
                       \/ ListingEqualsManifest(last')))
            => ~InstallerInvoked(last') ]_vars

C2_Witness ==
    /\ IsSetup(last) /\ last.ret = "True"
    /\ Printed(last, "All required packages are already installed.")
    /\ ~InstallerInvoked(last)

(***************************************************************************)
(* C3.  Round trip create, list, remove, list.                             *)
(***************************************************************************)
\* the environment of the invocation l is an entry of its base directory
NamesEntryOfBase(l) == l.venv_path # <<>> /\ Parent(l.venv_path) = l.base_dir

ListOnBaseOf(l) == last'.cmd = "list" /\ last'.base_dir = l.base_dir

\* C3: after a successful create of X in D, list on D reports X exactly once;
\* after a successful remove of X with force, the directory of X is gone and
\* list on D does not report X.
C3_RoundTrip ==
    [][ /\ (IsSetup(last) /\ last.ret = "True" /\ NamesEntryOfBase(last)
              /\ ListOnBaseOf(last))
            => Occurrences(last'.names, PathName(last.venv_path)) = 1
        /\ (IsRemove(last') /\ last'.force /\ last'.ret = "True")
            => last'.venv_path \notin dirs' \cup files'
        /\ (IsRemove(last) /\ last.force /\ last.ret = "True"
              /\ NamesEntryOfBase(last) /\ ListOnBaseOf(last))
            => Occurrences(last'.names, PathName(last.venv_path)) = 0 ]_vars

C3_Witness ==
    /\ last.cmd = "list" /\ last.base_dir = DefaultBaseDir
    /\ Occurrences(last.names, <<"p", "q">>) = 1
    /\ last.found = Len(last.names)

(***************************************************************************)
(* C4.  Declined removal.                                                  *)
(***************************************************************************)
\* remove without force on something that exists, and the answer declines
Declined ==
    /\ IsRemove(last') /\ ~last'.force
    /\ last'.venv_path \in dirs \cup files
    /\ Lower(last'.response) \notin { <<"y">>, <<"y", "e", "s">> }

C5_EmptyInventory ==
    (last.cmd = "list" /\ QualifyingDirs(last.base_dir) = {})
        => /\ Printed(last, "Found {n} virtual environment(s)")
           /\ last.found = 0
           /\ last.exit = 0

\* C5, the half that holds: the exit code is 0
C5_EmptyInventoryExitsZero ==
    (last.cmd = "list" /\ QualifyingDirs(last.base_dir) = {}) => last.exit = 0

(***************************************************************************)
(* C6, C7.  Remove of what is not an environment.                          *)
(***************************************************************************)
AbsenceReported(l) ==
    /\ Printed(l, "Virtual environment does not exist")
    /\ l.ret = "False"
    /\ l.exit = 1
    /\ ~Called(l, "input")

\* C6: remove of a name whose environment does not exist reports the absence,
\* exits with code 1, asks for no confirmation and changes nothing.
C6_RemoveNonexistent ==
    [][ (IsRemove(last') /\ ~HasActivationMarker(last'.venv_path))
            => (AbsenceReported(last') /\ UNCHANGED fsvars) ]_vars

\* C6, the case that holds: nothing at all stands at the path
C6_RemoveAbsentPath ==
    [][ (IsRemove(last') /\ last'.venv_path \notin dirs \cup files)
            => (AbsenceReported(last') /\ UNCHANGED fsvars) ]_vars

\* setup took the update path
TookUpdatePath(l) ==
    Printed(l, "Virtual environment already exists, checking packages...")

\* C7: existence is decided by the activation marker in every operation:
\* remove on a directory that holds no activation marker fails with "does not
\* exist" and deletes nothing, and setup updates iff the marker is present.
C7_ExistenceByMarker ==
    [][ /\ (IsRemove(last') /\ last'.venv_path \in dirs
              /\ ~HasActivationMarker(last'.venv_path))
            => (AbsenceReported(last') /\ UNCHANGED fsvars)
        /\ IsSetup(last')
            => (TookUpdatePath(last') <=> last'.venv_path \in activate) ]_vars

\* C7, the half that holds: setup updates iff bin/activate is present
C7_SetupByMarker ==
    [][ IsSetup(last')
            => /\ TookUpdatePath(last') <=> last'.venv_path \in activate
               /\ Called(last', "venv.create") => last'.venv_path \notin activate ]_vars

(***************************************************************************)
(* C8.  Inventory membership.                                              *)
(***************************************************************************)
\* C8: list reports an immediate subdirectory E of the base directory iff E
\* holds the activation marker, reports no entry that is not a directory, and
\* the count it prints is the number of such subdirectories.
C8_InventoryMembership ==
    last.cmd = "list" =>
        LET base_dir == last.base_dir
            entries == {e \in dirs \cup files :
                            Len(e) = Len(base_dir) + 1
                            /\ SubSeq(e, 1, Len(base_dir)) = base_dir}
        IN  /\ \A E \in entries :
                  Occurrences(last.names, PathName(E)) =
                      IF E \in dirs /\ HasActivationMarker(E) THEN 1 ELSE 0
            /\ \A i \in DOMAIN last.names :
                  \E E \in entries : PathName(E) = last.names[i]
            /\ Len(last.names) = Cardinality(QualifyingDirs(base_dir))
            /\ last.found # -1 => last.found = Cardinality(QualifyingDirs(base_dir))
            /\ Printed(last, "Found {n} virtual environment(s)") <=> last.found # -1

C8_Witness ==
    /\ last.cmd = "list" /\ last.base_dir = UsedBase
    /\ last.names = << <<"e">> >>
    /\ last.found = 1
    /\ UsedBase \o << <<"d">> >> \in dirs
    /\ UsedBase \o << <<"f">> >> \in files

(***************************************************************************)
(* C9.  The location marker.                                               *)
(***************************************************************************)
\* setup succeeded and no write of .venvlocation failed
SetupDoneMarkerOk(l) ==
    /\ IsSetup(l) /\ l.ret = "True"
    /\ ~Printed(l, "Warning: Could not create .venvlocation file")

\* C9 as stated: after every successful setup of X, by either path and
\* whatever the marker held before, .venvlocation holds the path of X and a
\* newline.
C9_MarkerTracksLastSetup ==
    SetupDoneMarkerOk(last) =>
        venvlocation = [exists |-> TRUE, content |-> MarkerTextFor(last.venv_path)]

\* C9 amended: after a successful setup of X by the create path, or by the
\* update path when no marker existed, .venvlocation holds the path of X and
\* a newline; the update path leaves a marker that exists as it was.
C9_MarkerWrittenWhenCreatedOrMissing ==
    [][ SetupDoneMarkerOk(last') =>
            IF last'.venv_path \in activate /\ venvlocation.exists
            THEN venvlocation' = venvlocation
            ELSE venvlocation' =
                     [exists |-> TRUE, content |-> MarkerTextFor(last'.venv_path)] ]_vars

C9_Witness ==
    /\ SetupDoneMarkerOk(last) /\ TookUpdatePath(last)
    /\ venvlocation.exists
    /\ venvlocation.content # MarkerTextFor(last.venv_path)

(***************************************************************************)
(* C10.  A manifest of blank and comment lines only.                       *)
(***************************************************************************)
\* the manifest of the invocation exists and holds no requirement line
CommentOnlyManifest(l) ==
    l.req \in ManifestFiles /\ RequiredLines(ManifestText(l.req)) = {}

\* the environment itself could be made and inspected
EnvironmentOk(l) ==
    ~Printed(l, "Error creating virtual environment") /\ l.ret # "raised"

\* C10: with a manifest of blank and comment lines only, setup succeeds and
\* invokes no installer command, on the create path and on the update path,
\* as it does when the manifest is missing.
C10_CommentOnlyIsNoInstall ==
    (IsSetup(last) /\ CommentOnlyManifest(last) /\ EnvironmentOk(last))
        => (last.ret = "True" /\ ~InstallerInvoked(last))

\* C10, what holds: a missing manifest on either path, and a manifest of
\* comments on the update path, invoke no installer command
C10_NoInstallWhenMissingOrUpdating ==
    (IsSetup(last) /\ EnvironmentOk(last)
       /\ RequiredLines(ManifestText(last.req)) = {}
       /\ (last.req \notin ManifestFiles \/ TookUpdatePath(last)))
        => (last.ret = "True" /\ ~InstallerInvoked(last))

(***************************************************************************)
(* C11.  A failure of the installer is a failure of setup.                 *)
(***************************************************************************)
\* C11: on either path of setup, when the pip upgrade or install -r exits
\* non-zero, setup returns failure and the command exits with code 1; when
\* the pip upgrade fails, install -r is not attempted.
C11_InstallFailureIsFatal ==
    IsSetup(last) =>
        /\ (Failed(last, "pip install -U pip") \/ Failed(last, "pip install -r"))
               => (last.ret = "False" /\ last.exit = 1)
        /\ Failed(last, "pip install -U pip") => ~Called(last, "pip install -r")
        /\ Failed(last, "pip install -r") => Called(last, "pip install -U pip")

C11_Witness ==
    /\ last.cmd = "legacy" /\ TookUpdatePath(last)
    /\ Failed(last, "pip install -r")
    /\ last.exit = 1

(***************************************************************************)
(* C12.  The activation script of the working directory.                   *)
(***************************************************************************)
ScriptFor(path) == [exists |-> TRUE, content |-> ActivationScriptText(path)]

\* C12 as stated: after every successful setup of X venv_shell is the script
\* that sources X's activation file; when setup fails venv_shell is left as
\* it was.
C12_ScriptRegeneratedOnSuccess ==
    [][ IsSetup(last') =>
            IF last'.ret = "True"
            THEN venv_shell' = ScriptFor(last'.venv_path)
            ELSE venv_shell' = venv_shell ]_vars

\* C12 amended: after every successful setup of X whose write of venv_shell
\* did not fail, venv_shell is the script that sources X's activation file;
\* a failed write is warned about and setup still succeeds; when setup fails
\* venv_shell is left as it was.
C12_ScriptRegeneratedUnlessWriteFails ==
    [][ IsSetup(last') =>
            /\ (last'.ret = "True" /\ ~Failed(last', "write venv_shell"))
                   => venv_shell' = ScriptFor(last'.venv_path)
            /\ Failed(last', "write venv_shell")
                   => /\ last'.ret = "True"
                      /\ Printed(last', "Warning: Could not create activation script")
            /\ last'.ret # "True" => venv_shell' = venv_shell ]_vars

C12_Witness ==
    /\ IsSetup(last) /\ last.ret = "True" /\ TookUpdatePath(last)
    /\ venv_shell = ScriptFor(last.venv_path)
    /\ venvlocation.exists
    /\ venvlocation.content # MarkerTextFor(last.venv_path)

HandlerLine(l) ==
    \/ Printed(l, "Unexpected error")
    \/ l.cmd = "create" /\ Printed(l, "Operation interrupted by user.")
    \/ l.cmd = "legacy" /\ Printed(l, "Setup interrupted by user.")

WithoutSubcommand(l) ==
    /\ l.cmd \notin {"none", "help"}
    /\ (l.argv = <<>> \/ l.argv[1] \notin Subcommands)

\* the step did to the filesystem, and ended, as the branch `create` of main
\* does from the same state on the flags of last'.argv
SameAsCreate ==
    \E F \in FaultSets(SetupFaults) :
        \E m \in {MainCreate(World,
                              FlagValue(last'.argv, "--name"),
                              FlagValue(last'.argv, "--base-dir"),
                              FlagValue(last'.argv, "--requirements"),
                              HasSwitch(last'.argv, "--verbose"), F)} :
            /\ dirs' = m.W.dirs /\ files' = m.W.files
            /\ activate' = m.W.activate /\ winact' = m.W.winact
            /\ installed' = m.W.installed
            /\ venvlocation' = m.W.venvlocation /\ venv_shell' = m.W.venv_shell
            /\ last'.venv_path = m.rec.venv_path /\ last'.req = m.rec.req
            /\ last'.calls = m.W.calls /\ last'.failed = m.W.failed
            /\ last'.ret = m.rec.ret /\ last'.exit = m.rec.exit

\* C14 as stated: an invocation with no subcommand, whatever the values of
\* its flags, performs the same setup and ends with the same exit code as
\* the same flags after `create`; legacy mode is chosen iff none of the three
\* tokens occurs in the argument list.
C14_LegacyIsCreate ==
    [][ /\ WithoutSubcommand(last') => SameAsCreate
        /\ last'.cmd \in {"legacy", "help"} <=> ~HasSubcommand(last'.argv) ]_vars

\* C14 amended: an invocation in whose argument list none of the three tokens
\* occurs is handled in legacy mode, and performs the same setup and ends
\* with the same exit code as the same flags after `create`; an argument list
\* without subcommand in which a flag's value is one of the tokens is not
\* handled in legacy mode, and the parser of the subcommands rejects it.
C14_LegacyIsCreateWithoutTokens ==
    [][ /\ last'.cmd = "legacy" => SameAsCreate
        /\ last'.cmd \in {"legacy", "help"} <=> ~HasSubcommand(last'.argv)
        /\ (WithoutSubcommand(last') /\ HasSubcommand(last'.argv))
               => (last'.exit = 2 /\ UNCHANGED fsvars) ]_vars

C14_Witness ==
    /\ last.cmd = "legacy" /\ last.ret = "True"
    /\ last.argv = << <<"--name">>, <<"p", "q">>,
                      <<"--requirements">>, <<"/", "m", "/", "ranged.txt">>,
                      <<"--verbose">> >>
    /\ InstallerInvoked(last)

(***************************************************************************)
(* C15.  Reconciliation on the update path.                                *)
(***************************************************************************)
\* the step is a setup of an environment that existed, with a manifest that
\* holds a requirement, and nobody interrupted it
UpdateWithRequirements ==
    /\ IsSetup(last') /\ last'.venv_path \in activate
    /\ RequiredLines(ManifestText(last'.req)) # {}
    /\ ~Printed(last', "Operation interrupted by user.")
    /\ ~Printed(last', "Setup interrupted by user.")

\* the installed set of the step: what the environment holds, and the empty
\* set when the freeze listing failed
InstalledSeen ==
    IF Failed(last', "pip freeze") THEN {}
    ELSE {x[2] : x \in {y \in installed : y[1] = last'.venv_path}}

Reconciled ==
    /\ InstallerInvoked(last')
           <=> InstalledSeen # RequiredLines(ManifestText(last'.req))
    /\ InstallerInvoked(last')
           => \/ last'.calls = <<"pip freeze", "pip install -U pip", "pip install -r">>
              \/ /\ last'.calls = <<"pip freeze", "pip install -U pip">>
                 /\ Failed(last', "pip install -U pip")
    /\ ~Called(last', "venv.create")

\* C15: when the environment exists and the manifest holds a requirement,
\* setup invokes the installer iff the installed set differs from the
\* required set as sets of strings, as pip upgrade and then install -r, and
\* never creates the environment.
C15_UpdateReconciles ==
    [][ UpdateWithRequirements => Reconciled ]_vars

\* C15, where it holds: the freeze listing returned, with a listing or with
\* the empty set after a non-zero exit
C15_UpdateReconcilesWhenListed ==
    [][ (UpdateWithRequirements /\ last'.ret # "raised") => Reconciled ]_vars

C15_Witness ==
    /\ IsSetup(last) /\ TookUpdatePath(last) /\ last.ret = "True"
    /\ last.req = << <<"m">>, <<"pinned.txt">> >>
    /\ InstallerInvoked(last)
    /\ <<last.venv_path, <<"requests==2.31.0">> >> \in installed

(***************************************************************************)
(* C16.  A failure of the freeze listing.                                  *)
(***************************************************************************)
\* the freeze listing of the invocation failed, and nobody interrupted it
ListingFailed(l) ==
    /\ Failed(l, "pip freeze")
    /\ ~Printed(l, "Operation interrupted by user.")
    /\ ~Printed(l, "Setup interrupted by user.")

\* the operation went on with the empty set
WentOnWithEmptySet(l) ==
    /\ l.ret # "raised"
    /\ (IsSetup(l) /\ RequiredLines(ManifestText(l.req)) # {}) => InstallerInvoked(l)
    /\ l.cmd = "list"
           => /\ Len(l.names) = Cardinality(QualifyingDirs(l.base_dir))
              /\ \E i \in DOMAIN l.counts : l.counts[i] = 0
    /\ (l.cmd = "remove" /\ ~l.force) => Printed(l, "Environment to be deleted:")

\* C16: whenever the freeze listing fails, by a non-zero exit or because the
\* installer of the environment cannot be run, the operation goes on with the
\* empty set: the update path compares and reinstalls, list and the preview
\* of remove report the environment with 0 packages.
C16_ListingFailureIsNotFatal ==
    ListingFailed(last) => WentOnWithEmptySet(last)

\* C16, where it holds: the listing exited non-zero, or list or the preview
\* of remove asked for it
C16_ListingFailureIsNotFatalWhenCaught ==
    (ListingFailed(last)
       /\ (Printed(last, "Error getting installed packages")
            \/ last.cmd \in {"list", "remove"}))
        => WentOnWithEmptySet(last)

(***************************************************************************)
(* C17.  Secondary bookkeeping.                                            *)
(***************************************************************************)
\* creation or installation failed, or setup was left by an exception
PrimaryFailed(l) ==
    \/ Failed(l, "mkdir") \/ Failed(l, "venv.create")
    \/ Failed(l, "pip install -U pip") \/ Failed(l, "pip install -r")
    \/ l.ret = "raised"

BookkeepingFailed(l) ==
    \/ Failed(l, "write .venvlocation")
    \/ Failed(l, "write venv_shell") \/ Failed(l, "chmod venv_shell")

MarkerCleanupFailed(l) ==
    Failed(l, "read .venvlocation") \/ Failed(l, "unlink .venvlocation")

ScriptCleanupFailed(l) ==
    Failed(l, "read venv_shell") \/ Failed(l, "unlink venv_shell")

\* C17: a failed write of .venvlocation or venv_shell leaves the result of
\* setup the result of creation and installation alone; once the directory of
\* the environment has been removed, a failed read or delete of .venvlocation
\* or venv_shell leaves remove returning success, and the cleanup of
\* venv_shell is attempted also when the cleanup of .venvlocation failed.
C17_BookkeepingNeverDecides ==
    [][ /\ (IsSetup(last') /\ BookkeepingFailed(last'))
               => (last'.ret = "True" <=> ~PrimaryFailed(last'))
        /\ (IsRemove(last') /\ ~Failed(last', "rmtree")
               /\ Printed(last', "Successfully removed virtual environment"))
               => /\ last'.ret = "True" /\ last'.exit = 0
                  /\ (MarkerCleanupFailed(last') /\ ~ScriptCleanupFailed(last')
                         /\ venv_shell.exists
                         /\ ScriptPointsTo(venv_shell.content, last'.venv_path))
                        => ~venv_shell'.exists ]_vars

C17_Witness ==
    /\ IsRemove(last) /\ last.ret = "True"
    /\ Failed(last, "read .venvlocation")
    /\ Printed(last, "Removed venv_shell activation script")
    /\ venvlocation.exists /\ ~venv_shell.exists

(***************************************************************************)
(* C18.  Removal is confined to the named environment.                     *)
(***************************************************************************)
\* the environments under the base directory of the invocation l, before it
\* ran, other than the one it names
OtherEnvironments(l) ==
    {B \in dirs : /\ Len(B) = Len(l.base_dir) + 1
                  /\ SubSeq(B, 1, Len(l.base_dir)) = l.base_dir
                  /\ B \in activate \cup winact
                  /\ PathName(B) # FlagValue(l.argv, "--name")}

\* C18: a confirmed remove of any name A leaves every other environment B
\* under the same base directory, B's activation marker, and the base
\* directory itself in place.
C18_RemovalConfined ==
    [][ (IsRemove(last') /\ last'.ret = "True")
            => /\ last'.base_dir \in dirs'
               /\ \A B \in OtherEnvironments(last') :
                      /\ B \in dirs'
                      /\ B \in activate => B \in activate'
                      /\ B \in winact => B \in winact' ]_vars

\* C18, where it holds: the name is one entry of the base directory
C18_RemovalConfinedForEntries ==
    [][ (IsRemove(last') /\ last'.ret = "True" /\ NamesEntryOfBase(last'))
            => /\ last'.base_dir \in dirs'
               /\ \A B \in OtherEnvironments(last') :
                      /\ B \in dirs'
                      /\ B \in activate => B \in activate'
                      /\ B \in winact => B \in winact' ]_vars

====
